---- MODULE Spec2Model ----
(***************************************************************************)
(* The covidcast observation store of delphi-epidata                       *)
(* (src/acquisition/covidcast/database.py): the `covidcast` table, the     *)
(* statements class Database runs against it, and the storage clock        *)
(* UNIX_TIMESTAMP(NOW()) they stamp rows with.                             *)
(*                                                                         *)
(* Every method of Database executes one SQL statement; a statement is     *)
(* atomic, so one action models one call.  The auto-increment `id` column  *)
(* (the leading 0 of the INSERT) is read by no statement and is left out.  *)
(***************************************************************************)
EXTENDS Integers, FiniteSets, Sequences

VARIABLES
  covidcast,         \* the rows of table `covidcast`, as this connection sees them
  now,               \* the storage clock, in whole seconds
  pc,                \* where the top-level driver (main) is
  test,              \* args.test
  main_commit,       \* main's commit flag, the argument of disconnect
  exception,         \* an exception of the ingest step is propagating
  connection,        \* "none", "open" or "closed"
  persisted,         \* the committed rows of `covidcast`
  disconnect_calls,  \* the arguments of the calls of Database.disconnect
  commit_calls,      \* the number of calls of connection.commit()
  covidcast_meta_cache,    \* the rows of table `covidcast_meta_cache`
  scan_files,              \* what find_csv_files yields: (path, details) and the file's rows
  scan_pc,                 \* where scan_upload_archive is
  scan_file,               \* the index of the file of the outer loop
  scan_row,                \* the index of the row of the inner loop
  all_rows_valid,          \* the flag of the file being loaded
  load_csv_calls,          \* the paths load_csv was called with
  insert_or_update_calls,  \* the arguments of the calls of insert_or_update
  archive_file_calls,      \* the arguments of the calls of archive_file
  ingest_open,       \* rows are still being uploaded
  wpc,               \* where each direction worker is
  wtarget,           \* the stale row a worker took from its result
  wwindow,           \* the rows a worker read to compute the direction
  restarts           \* how many times the direction workers were restarted

storeVars == <<covidcast, now>>
mainVars == <<pc, test, main_commit, exception, connection, persisted,
              disconnect_calls, commit_calls>>
scanVars == <<scan_files, scan_pc, scan_file, scan_row, all_rows_valid,
              load_csv_calls, insert_or_update_calls, archive_file_calls>>
workerVars == <<ingest_open, wpc, wtarget, wwindow, restarts>>
vars == <<covidcast, now, pc, test, main_commit, exception, connection, persisted,
          disconnect_calls, commit_calls, covidcast_meta_cache, scan_files,
          scan_pc, scan_file, scan_row, all_rows_valid, load_csv_calls,
          insert_or_update_calls, archive_file_calls, ingest_open, wpc,
          wtarget, wwindow, restarts>>

----------------------------------------------------------------------------
(* Inputs the calls are drawn from.                                        *)

\* the clock is stopped at MaxNow so that the state space is finite
MaxNow == 3

NULL == "NULL"

Sources == {"src_a"}
Signals == {"sig_a"}
TimeTypes == {"day", "week"}
GeoTypes == {"hrr"}
GeoValues == {"a1"}

\* time_value is an integer YYYYMMDD for a day and YYYYWW for a week; the
\* days straddle a month boundary: 20200424 and 20200430 are 6 days apart,
\* 20200424 and 20200501 are 7 days apart
DayValues == {20200424, 20200430, 20200501}
WeekValues == {202016}

\* the composite keys the calls use: a daily series of three days and a
\* weekly row of the same source, signal and location
DayKeys ==
  {[source |-> so, signal |-> si, time_type |-> "day", geo_type |-> gt,
    time_value |-> t, geo_value |-> gv] :
      so \in Sources, si \in Signals, gt \in GeoTypes, t \in DayValues,
      gv \in GeoValues}

WeekKeys ==
  {[source |-> so, signal |-> si, time_type |-> "week", geo_type |-> gt,
    time_value |-> t, geo_value |-> gv] :
      so \in Sources, si \in Signals, gt \in GeoTypes, t \in WeekValues,
      gv \in GeoValues}

Keys == DayKeys \cup WeekKeys

\* the keys of the runs that mix time types: two days and the week
MixedKeys == {k \in Keys : k.time_value # 20200424}

\* (value, stderr, sample_size) of a CSV row
Measurements ==
  {[value |-> 1, stderr |-> 1, sample_size |-> 10],
   [value |-> 2, stderr |-> 2, sample_size |-> 20]}

\* the rows the ingest step uploads: the file of 20200430 is uploaded with
\* either measurement, the other files with the first one
Uploads ==
  {u \in [key : Keys, row : Measurements] :
     u.key.time_value = 20200430 \/ u.row.value = 1}

\* direction is opaque to database.py; a computed direction is one of these
Directions == {"up"}

----------------------------------------------------------------------------
(* Rows and keys.                                                          *)

\* the unique index of `covidcast` that ON DUPLICATE KEY refers to
KeyOf(r) ==
  [source |-> r.source, signal |-> r.signal, time_type |-> r.time_type,
   geo_type |-> r.geo_type, time_value |-> r.time_value,
   geo_value |-> r.geo_value]

\* the columns a JOIN ... USING / GROUP BY names: one time series
SeriesOf(r) ==
  [source |-> r.source, signal |-> r.signal, time_type |-> r.time_type,
   geo_type |-> r.geo_type, geo_value |-> r.geo_value]

\* UNIX_TIMESTAMP(NOW()): whole seconds of the storage clock
UNIX_TIMESTAMP_NOW == now

----------------------------------------------------------------------------
(* MySQL's DATEDIFF on YYYYMMDD integers: the difference in calendar days. *)

IsLeapYear(y) == (y % 4 = 0 /\ y % 100 # 0) \/ y % 400 = 0

DaysBeforeMonth == <<0, 31, 59, 90, 120, 151, 181, 212, 243, 273, 304, 334>>

TO_DAYS(t) ==
  LET y == t \div 10000
      m == (t \div 100) % 100
      d == t % 100
  IN  365 * y + ((y - 1) \div 4) - ((y - 1) \div 100) + ((y - 1) \div 400)
      + DaysBeforeMonth[m] + (IF m > 2 /\ IsLeapYear(y) THEN 1 ELSE 0) + d

DATEDIFF(a, b) == TO_DAYS(a) - TO_DAYS(b)

----------------------------------------------------------------------------
(* Database.insert_or_update                                               *)

\* as insert_or_update, were the six key columns no unique index of the
\* table: ON DUPLICATE KEY never applies and every call inserts
insert_or_update_no_unique_key(source, signal, time_type, geo_type, time_value, geo_value, value, stderr, sample_size) ==
  /\ covidcast' = covidcast \cup
       {[source |-> source, signal |-> signal, time_type |-> time_type,
         geo_type |-> geo_type, time_value |-> time_value,
         geo_value |-> geo_value,
         timestamp1 |-> UNIX_TIMESTAMP_NOW,
         value |-> value, stderr |-> stderr, sample_size |-> sample_size,
         timestamp2 |-> 0, direction |-> NULL]}
  /\ now' = now

\* as insert_or_update, written as REPLACE INTO: the present row is deleted
\* and inserted anew, with timestamp2 = 0 and direction NULL
insert_or_update_replace(source, signal, time_type, geo_type, time_value, geo_value, value, stderr, sample_size) ==
  LET new == [source |-> source, signal |-> signal, time_type |-> time_type,
              geo_type |-> geo_type, time_value |-> time_value,
              geo_value |-> geo_value,
              timestamp1 |-> UNIX_TIMESTAMP_NOW,
              value |-> value, stderr |-> stderr, sample_size |-> sample_size,
              timestamp2 |-> 0, direction |-> NULL]
  IN  /\ covidcast' =
           {r \in covidcast : KeyOf(r) # KeyOf(new)} \cup {new}
      /\ now' = now

insert_or_update(source, signal, time_type, geo_type, time_value, geo_value, value, stderr, sample_size) ==
  LET new == [source |-> source, signal |-> signal, time_type |-> time_type,
              geo_type |-> geo_type, time_value |-> time_value,
              geo_value |-> geo_value,
              timestamp1 |-> UNIX_TIMESTAMP_NOW,
              value |-> value, stderr |-> stderr, sample_size |-> sample_size,
              timestamp2 |-> 0, direction |-> NULL]
      dup == {r \in covidcast : KeyOf(r) = KeyOf(new)}
  IN  /\ covidcast' =
           IF dup = {}
           THEN covidcast \cup {new}
           ELSE (covidcast \ dup) \cup
                {[r EXCEPT !.timestamp1 = new.timestamp1,
                           !.value = new.value,
                           !.stderr = new.stderr,
                           !.sample_size = new.sample_size] : r \in dup}
      /\ now' = now

(* Database.update_direction                                               *)

\* as update_direction, without the time_value column in WHERE: the write
\* goes to every row of the series
update_direction_whole_series(source, signal, time_type, geo_type, time_value, geo_value, direction) ==
  /\ covidcast' =
       {IF /\ r.source = source
           /\ r.signal = signal
           /\ r.time_type = time_type
           /\ r.geo_type = geo_type
           /\ r.geo_value = geo_value
        THEN [r EXCEPT !.timestamp2 = UNIX_TIMESTAMP_NOW,
                       !.direction = direction]
        ELSE r : r \in covidcast}
  /\ now' = now

\* as update_direction, without timestamp2 in SET: only the direction is
\* written
update_direction_keeping_timestamp2(source, signal, time_type, geo_type, time_value, geo_value, direction) ==
  /\ covidcast' =
       {IF /\ r.source = source
           /\ r.signal = signal
           /\ r.time_type = time_type
           /\ r.geo_type = geo_type
           /\ r.time_value = time_value
           /\ r.geo_value = geo_value
        THEN [r EXCEPT !.direction = direction]
        ELSE r : r \in covidcast}
  /\ now' = now

update_direction(source, signal, time_type, geo_type, time_value, geo_value, direction) ==
  /\ covidcast' =
       {IF /\ r.source = source
           /\ r.signal = signal
           /\ r.time_type = time_type
           /\ r.geo_type = geo_type
           /\ r.time_value = time_value
           /\ r.geo_value = geo_value
        THEN [r EXCEPT !.timestamp2 = UNIX_TIMESTAMP_NOW,
                       !.direction = direction]
        ELSE r : r \in covidcast}
  /\ now' = now

(* Database.update_timeseries_timestamp2                                   *)

\* as update_timeseries_timestamp2, without the time_type column in WHERE
update_timeseries_timestamp2_any_time_type(source, signal, time_type, geo_type, geo_value) ==
  /\ covidcast' =
       {IF /\ r.source = source
           /\ r.signal = signal
           /\ r.geo_type = geo_type
           /\ r.geo_value = geo_value
        THEN [r EXCEPT !.timestamp2 = UNIX_TIMESTAMP_NOW]
        ELSE r : r \in covidcast}
  /\ now' = now

update_timeseries_timestamp2(source, signal, time_type, geo_type, geo_value) ==
  /\ covidcast' =
       {IF /\ r.source = source
           /\ r.signal = signal
           /\ r.time_type = time_type
           /\ r.geo_type = geo_type
           /\ r.geo_value = geo_value
        THEN [r EXCEPT !.timestamp2 = UNIX_TIMESTAMP_NOW]
        ELSE r : r \in covidcast}
  /\ now' = now

----------------------------------------------------------------------------
(* Database.get_rows_with_stale_direction                                  *)

MaxOf(S) == CHOOSE x \in S : \A y \in S : y <= x
MinOf(S) == CHOOSE x \in S : \A y \in S : x <= y

\* LIMIT 10000 of the statement, scaled to the three daily rows of the
\* model so that the cap can be reached
LIMIT == 2

\* as stale_join, with the window taken on both sides of c:
\*   WHERE DATEDIFF(c.time_value, d.time_value) BETWEEN -6 AND 6
stale_join_both_sides(c) ==
  {d \in covidcast :
     /\ SeriesOf(d) = SeriesOf(c)
     /\ DATEDIFF(c.time_value, d.time_value) >= -6
     /\ DATEDIFF(c.time_value, d.time_value) <= 6}

\* as stale_join, without the row itself:
\*   WHERE DATEDIFF(c.time_value, d.time_value) BETWEEN 1 AND 6
stale_join_without_self(c) ==
  {d \in covidcast :
     /\ SeriesOf(d) = SeriesOf(c)
     /\ DATEDIFF(c.time_value, d.time_value) >= 1
     /\ DATEDIFF(c.time_value, d.time_value) <= 6}

\* the rows d the self-join pairs with row c:
\*   USING (source, signal, time_type, geo_type, geo_value)
\*   WHERE DATEDIFF(c.time_value, d.time_value) BETWEEN 0 AND 6
stale_join(c) ==
  {d \in covidcast :
     /\ SeriesOf(d) = SeriesOf(c)
     /\ DATEDIFF(c.time_value, d.time_value) >= 0
     /\ DATEDIFF(c.time_value, d.time_value) <= 6}

\* the groups the statement keeps: WHERE c.time_type = 'day', GROUP BY the
\* key of c, HAVING MAX(d.timestamp1) > c.timestamp2
stale_rows ==
  {c \in covidcast :
     /\ c.time_type = "day"
     /\ stale_join(c) # {}
     /\ MaxOf({d.timestamp1 : d \in stale_join(c)}) > c.timestamp2}

\* one row of the result
stale_result(c) ==
  [source |-> c.source, signal |-> c.signal, time_type |-> c.time_type,
   geo_type |-> c.geo_type, time_value |-> c.time_value,
   geo_value |-> c.geo_value, timestamp2 |-> c.timestamp2,
   max_timestamp1 |-> MaxOf({d.timestamp1 : d \in stale_join(c)}),
   support |-> Cardinality(stale_join(c))]

\* ORDER BY rand() LIMIT: the results the call may return, each as the set
\* of its rows; any LIMIT of the groups may be the ones returned
get_rows_with_stale_direction ==
  LET groups == stale_rows
      n == IF Cardinality(groups) <= LIMIT THEN Cardinality(groups) ELSE LIMIT
  IN  {{stale_result(c) : c \in S} :
         S \in {S \in SUBSET groups : Cardinality(S) = n}}

(* Database.get_keys_with_potentially_stale_direction                      *)

\* as day_series, without WHERE time_type = 'day'
day_series_any_time_type == {SeriesOf(r) : r \in covidcast}

\* WHERE time_type = 'day' GROUP BY the series
day_series == {SeriesOf(r) : r \in {r \in covidcast : r.time_type = "day"}}

series_rows(s) == {r \in covidcast : SeriesOf(r) = s}

\* as get_keys_with_potentially_stale_direction, with the two timestamps
\* compared row by row instead of through the aggregates:
\*   WHERE time_type = 'day' AND timestamp1 > timestamp2 GROUP BY the series
get_keys_with_potentially_stale_direction_row_by_row ==
  {[source |-> s.source, signal |-> s.signal, geo_type |-> s.geo_type,
    geo_value |-> s.geo_value,
    max_timestamp1 |-> MaxOf({r.timestamp1 : r \in series_rows(s)}),
    min_timestamp2 |-> MinOf({r.timestamp2 : r \in series_rows(s)}),
    min_day |-> MinOf({r.time_value : r \in series_rows(s)}),
    max_day |-> MaxOf({r.time_value : r \in series_rows(s)}),
    series_length |-> Cardinality(series_rows(s))] :
     s \in {s \in day_series :
              \E r \in series_rows(s) : r.timestamp1 > r.timestamp2}}

get_keys_with_potentially_stale_direction ==
  {[source |-> s.source, signal |-> s.signal, geo_type |-> s.geo_type,
    geo_value |-> s.geo_value,
    max_timestamp1 |-> MaxOf({r.timestamp1 : r \in series_rows(s)}),
    min_timestamp2 |-> MinOf({r.timestamp2 : r \in series_rows(s)}),
    min_day |-> MinOf({r.time_value : r \in series_rows(s)}),
    max_day |-> MaxOf({r.time_value : r \in series_rows(s)}),
    series_length |-> Cardinality(series_rows(s))] :
     s \in {s \in day_series :
              MaxOf({r.timestamp1 : r \in series_rows(s)})
                > MinOf({r.timestamp2 : r \in series_rows(s)})}}

(* Database.get_rows_to_compute_direction                                  *)

\* an integer MySQL reads as a date; DATEDIFF of any other is NULL, and a
\* NULL BETWEEN selects no row
IsDate(t) == (t \div 100) % 100 \in 1..12 /\ t % 100 \in 1..31

\* ORDER BY time_value ASC
RECURSIVE OrderByTimeValue(_)
OrderByTimeValue(rows) ==
  IF rows = {}
  THEN <<>>
  ELSE LET first == CHOOSE r \in rows :
                      \A q \in rows : r.time_value <= q.time_value
       IN  <<first>> \o OrderByTimeValue(rows \ {first})

\* as window_rows, with the window of the statement that finds stale rows
\* mistaken for one that ends the day before the target:
\*   DATEDIFF(time_value, %s) BETWEEN -6 and -1
window_rows_before_target(source, signal, geo_type, time_value, geo_value) ==
  {r \in covidcast :
     /\ r.source = source
     /\ r.signal = signal
     /\ r.time_type = "day"
     /\ r.geo_type = geo_type
     /\ r.geo_value = geo_value
     /\ IsDate(r.time_value) /\ IsDate(time_value)
     /\ DATEDIFF(r.time_value, time_value) >= -6
     /\ DATEDIFF(r.time_value, time_value) <= -1}

\* the rows WHERE keeps
window_rows(source, signal, geo_type, time_value, geo_value) ==
  {r \in covidcast :
     /\ r.source = source
     /\ r.signal = signal
     /\ r.time_type = "day"
     /\ r.geo_type = geo_type
     /\ r.geo_value = geo_value
     /\ IsDate(r.time_value) /\ IsDate(time_value)
     /\ DATEDIFF(r.time_value, time_value) >= -6
     /\ DATEDIFF(r.time_value, time_value) <= 0}

\* the result: (time_offset, value) of the rows kept, in the order of their
\* time_value
get_rows_to_compute_direction(source, signal, geo_type, time_value, geo_value) ==
  LET rows == OrderByTimeValue(window_rows(source, signal, geo_type, time_value, geo_value))
  IN  [i \in 1..Len(rows) |->
         [time_offset |-> DATEDIFF(rows[i].time_value, time_value),
          value |-> rows[i].value]]

(* Database.count_all_rows                                                 *)

\* SELECT count(1) FROM covidcast
count_all_rows == Cardinality(covidcast)

(* Database.update_covidcast_meta_cache                                    *)

\* UPDATE covidcast_meta_cache SET timestamp = UNIX_TIMESTAMP(NOW()),
\* epidata = %s, without WHERE: every row of the cache table
update_covidcast_meta_cache(epidata_json) ==
  /\ covidcast_meta_cache' =
       {[r EXCEPT !.timestamp = UNIX_TIMESTAMP_NOW,
                  !.epidata = epidata_json] : r \in covidcast_meta_cache}
  /\ UNCHANGED storeVars

(* The storage clock advances between statements.                          *)

Tick ==
  /\ now < MaxNow
  /\ now' = now + 1
  /\ covidcast' = covidcast
  /\ UNCHANGED <<mainVars, covidcast_meta_cache, scanVars, workerVars>>

----------------------------------------------------------------------------

(* The parts of the program that a run does not exercise are at rest: the  *)
(* metadata cache holds its one row, no scan is under way and no direction *)
(* worker has started.                                                     *)

\* Python's None
None == [none |-> TRUE]

Workers == {1, 2}

Quiescent ==
  /\ covidcast_meta_cache = {[timestamp |-> 0, epidata |-> ""]}
  /\ scan_files = <<>>
  /\ scan_pc = "idle"
  /\ scan_file = 1
  /\ scan_row = 1
  /\ all_rows_valid = TRUE
  /\ load_csv_calls = <<>>
  /\ insert_or_update_calls = <<>>
  /\ archive_file_calls = <<>>
  /\ ingest_open = TRUE
  /\ wpc = [w \in Workers |-> "idle"]
  /\ wtarget = [w \in Workers |-> None]
  /\ wwindow = [w \in Workers |-> <<>>]
  /\ restarts = 0

(* The store under any interleaving of its writers' statements.             *)

Init ==
  /\ covidcast = {}
  /\ now = 1
  /\ pc = "idle"
  /\ test = FALSE
  /\ main_commit = FALSE
  /\ exception = FALSE
  /\ connection = "none"
  /\ persisted = {}
  /\ disconnect_calls = <<>>
  /\ commit_calls = 0
  /\ Quiescent

\* an ingest process upserts a row of one of the keys K
Upsert(K) ==
  /\ \E u \in Uploads :
       /\ u.key \in K
       /\ insert_or_update(u.key.source, u.key.signal, u.key.time_type,
                           u.key.geo_type, u.key.time_value, u.key.geo_value,
                           u.row.value, u.row.stderr, u.row.sample_size)
  /\ UNCHANGED <<mainVars, covidcast_meta_cache, scanVars, workerVars>>

\* a direction process writes a direction back to a row
WriteBack(K) ==
  /\ \E k \in K, d \in Directions :
       update_direction(k.source, k.signal, k.time_type, k.geo_type,
                        k.time_value, k.geo_value, d)
  /\ UNCHANGED <<mainVars, covidcast_meta_cache, scanVars, workerVars>>

\* a direction process confirms a whole series
Confirm(K) ==
  /\ \E k \in K :
       update_timeseries_timestamp2(k.source, k.signal, k.time_type,
                                    k.geo_type, k.geo_value)
  /\ UNCHANGED <<mainVars, covidcast_meta_cache, scanVars, workerVars>>

\* the daily series of three days
Next == Upsert(DayKeys) \/ WriteBack(DayKeys) \/ Confirm(DayKeys) \/ Tick

Spec == Init /\ [][Next]_vars

\* two days of the daily series and the weekly row
NextMixed ==
  Upsert(MixedKeys) \/ WriteBack(MixedKeys) \/ Confirm(MixedKeys) \/ Tick

SpecMixed == Init /\ [][NextMixed]_vars

(* The store and the metadata cache: the four writers of Database on the   *)
(* two latest days of the daily series.                                    *)

\* the serialized metadata a refresh is called with
Epidata == {"[]", "[{}]"}

RecentDayKeys == {k \in DayKeys : k.time_value # 20200424}

\* the metadata cache is refreshed
Refresh ==
  /\ \E epidata_json \in Epidata : update_covidcast_meta_cache(epidata_json)
  /\ UNCHANGED <<mainVars, scanVars, workerVars>>

NextCache ==
  \/ Upsert(RecentDayKeys)
  \/ WriteBack(RecentDayKeys)
  \/ Confirm(RecentDayKeys)
  \/ Refresh
  \/ Tick

SpecCache == Init /\ [][NextCache]_vars

----------------------------------------------------------------------------
(* Database.disconnect                                                     *)

\* as disconnect, committing whatever its argument is
disconnect_always_commit(commit) ==
  /\ commit_calls' = commit_calls + 1
  /\ persisted' = covidcast
  /\ connection' = "closed"
  /\ disconnect_calls' = Append(disconnect_calls, commit)
  /\ UNCHANGED storeVars

\* the cursor is closed, the connection commits if asked to, and is closed;
\* what was not committed never reaches the committed rows
disconnect(commit) ==
  /\ commit_calls' = IF commit THEN commit_calls + 1 ELSE commit_calls
  /\ persisted' = IF commit THEN covidcast ELSE persisted
  /\ connection' = "closed"
  /\ disconnect_calls' = Append(disconnect_calls, commit)
  /\ UNCHANGED storeVars

(* The top-level driver, main of csv_to_database.py: it connects, runs the *)
(* ingest step (scan_upload_archive) and disconnects in a finally block.   *)
(* The ingest step upserts uploaded rows one by one and either returns or  *)
(* raises.                                                                 *)

main_connect ==
  /\ pc = "start"
  /\ connection' = "open"
  /\ pc' = "scan"
  /\ UNCHANGED <<covidcast, now, test, main_commit, exception, persisted,
                 disconnect_calls, commit_calls>>
  /\ UNCHANGED <<covidcast_meta_cache, scanVars, workerVars>>

main_scan_upsert ==
  /\ pc = "scan"
  /\ \E u \in Uploads :
       insert_or_update(u.key.source, u.key.signal, u.key.time_type,
                        u.key.geo_type, u.key.time_value, u.key.geo_value,
                        u.row.value, u.row.stderr, u.row.sample_size)
  /\ UNCHANGED <<mainVars, covidcast_meta_cache, scanVars, workerVars>>

main_scan_return ==
  /\ pc = "scan"
  /\ main_commit' = ~ test
  /\ pc' = "finally"
  /\ UNCHANGED <<covidcast, now, test, exception, connection, persisted,
                 disconnect_calls, commit_calls>>
  /\ UNCHANGED <<covidcast_meta_cache, scanVars, workerVars>>

main_scan_raise ==
  /\ pc = "scan"
  /\ exception' = TRUE
  /\ pc' = "finally"
  /\ UNCHANGED <<covidcast, now, test, main_commit, connection, persisted,
                 disconnect_calls, commit_calls>>
  /\ UNCHANGED <<covidcast_meta_cache, scanVars, workerVars>>

main_finally ==
  /\ pc = "finally"
  /\ disconnect(main_commit)
  /\ pc' = IF exception THEN "raised" ELSE "returned"
  /\ UNCHANGED <<test, main_commit, exception>>
  /\ UNCHANGED <<covidcast_meta_cache, scanVars, workerVars>>

InitMain ==
  /\ covidcast = {}
  /\ now = 1
  /\ pc = "start"
  /\ test \in BOOLEAN
  /\ main_commit = FALSE
  /\ exception = FALSE
  /\ connection = "none"
  /\ persisted = {}
  /\ disconnect_calls = <<>>
  /\ commit_calls = 0
  /\ Quiescent

NextMain ==
  \/ main_connect
  \/ main_scan_upsert
  \/ main_scan_return
  \/ main_scan_raise
  \/ main_finally
  \/ Tick

SpecMain == InitMain /\ [][NextMain]_vars

----------------------------------------------------------------------------
(* The ingest step, scan_upload_archive of csv_to_database.py: for every   *)
(* (path, details) that find_csv_files yields it archives the file as      *)
(* failed under "unknown" when there are no details, and otherwise loads   *)
(* the rows of the file, upserts every row that is not None, and archives  *)
(* the file as successful if no row was None, as failed if one was.        *)

\* the longest file, in rows: a row that is not valid may have valid rows
\* before and after it
MaxRows == 3

data_dir == "data_dir"

\* what find_csv_files yields for the three files of the receiving
\* directory: the details of the file's name, or None
DetailsOf(filename) ==
  CASE filename = "a.csv" ->
         [source |-> "src_a", signal |-> "sig_a", time_type |-> "day",
          geo_type |-> "hrr", time_value |-> 20200419]
    [] filename = "b.csv" ->
         [source |-> "src_b", signal |-> "sig_b", time_type |-> "week",
          geo_type |-> "msa", time_value |-> 202016]
    [] filename = "c.csv" -> None

FileNames == {"a.csv", "b.csv", "c.csv"}

\* what load_csv yields for a row of a file: (geo_value, value, stderr,
\* sample_size), or None for a row that is not valid; a.csv may repeat
\* its location with another measurement
RowsIn(filename) ==
  CASE filename = "a.csv" ->
         {[geo_value |-> "a1", value |-> 1, stderr |-> 1, sample_size |-> 10],
          [geo_value |-> "a1", value |-> 2, stderr |-> 2, sample_size |-> 20],
          None}
    [] filename = "b.csv" ->
         {[geo_value |-> "b1", value |-> 1, stderr |-> 1, sample_size |-> 10],
          None}
    [] filename = "c.csv" ->
         {[geo_value |-> "c1", value |-> 1, stderr |-> 1, sample_size |-> 10]}

RowListsOf(filename) ==
  UNION {[1..n -> RowsIn(filename)] : n \in 0..MaxRows}

\* the rows of each file; the rows of c.csv, whose name has no details, are
\* the same in every run
FileRows ==
  {[filename \in FileNames |->
      CASE filename = "a.csv" -> rows_a
        [] filename = "b.csv" -> rows_b
        [] filename = "c.csv" ->
             <<[geo_value |-> "c1", value |-> 1, stderr |-> 1,
                sample_size |-> 10]>>] :
     rows_a \in RowListsOf("a.csv"), rows_b \in RowListsOf("b.csv")}

\* the files of a run, of different names, in any order
FileOrders ==
  {order \in UNION {[1..n -> FileNames] : n \in 0..Cardinality(FileNames)} :
     \A i, j \in 1..Len(order) : i # j => order[i] # order[j]}

\* the lists find_csv_files may yield, each file with its rows
FileLists ==
  {[i \in 1..Len(order) |->
      [path_src |-> "path", filename |-> order[i], rows |-> rows[order[i]]]] :
     order \in FileOrders, rows \in FileRows}

\* os.path.join, as the list of the components
archive_successful_dir == <<data_dir, "archive", "successful">>
archive_failed_dir == <<data_dir, "archive", "failed">>

\* the for loop is over
scan_return ==
  /\ scan_pc = "files"
  /\ scan_file > Len(scan_files)
  /\ scan_pc' = "returned"
  /\ UNCHANGED <<scan_files, scan_file, scan_row, all_rows_valid,
                 load_csv_calls, insert_or_update_calls, archive_file_calls>>
  /\ UNCHANGED <<storeVars, mainVars, covidcast_meta_cache, workerVars>>

\* if not details: the file is archived as failed, the source is unknown
scan_archive_unknown ==
  /\ scan_pc = "files"
  /\ scan_file <= Len(scan_files)
  /\ DetailsOf(scan_files[scan_file].filename) = None
  /\ archive_file_calls' =
       Append(archive_file_calls,
              [path_src |-> scan_files[scan_file].path_src,
               path_dst |-> Append(archive_failed_dir, "unknown"),
               filename |-> scan_files[scan_file].filename,
               success |-> FALSE])
  /\ scan_file' = scan_file + 1
  /\ UNCHANGED <<scan_files, scan_pc, scan_row, all_rows_valid,
                 load_csv_calls, insert_or_update_calls>>
  /\ UNCHANGED <<storeVars, mainVars, covidcast_meta_cache, workerVars>>

\* the file has details: its rows are loaded
scan_load_csv ==
  /\ scan_pc = "files"
  /\ scan_file <= Len(scan_files)
  /\ DetailsOf(scan_files[scan_file].filename) # None
  /\ load_csv_calls' =
       Append(load_csv_calls,
              <<scan_files[scan_file].path_src,
                scan_files[scan_file].filename>>)
  /\ all_rows_valid' = TRUE
  /\ scan_row' = 1
  /\ scan_pc' = "rows"
  /\ UNCHANGED <<scan_files, scan_file, insert_or_update_calls,
                 archive_file_calls>>
  /\ UNCHANGED <<storeVars, mainVars, covidcast_meta_cache, workerVars>>

\* a row that is None: the file is not valid, the loop goes on
scan_row_invalid ==
  /\ scan_pc = "rows"
  /\ scan_row <= Len(scan_files[scan_file].rows)
  /\ scan_files[scan_file].rows[scan_row] = None
  /\ all_rows_valid' = FALSE
  /\ scan_row' = scan_row + 1
  /\ UNCHANGED <<scan_files, scan_pc, scan_file, load_csv_calls,
                 insert_or_update_calls, archive_file_calls>>
  /\ UNCHANGED <<storeVars, mainVars, covidcast_meta_cache, workerVars>>

\* a valid row is upserted with the details of the file
scan_row_upsert ==
  /\ scan_pc = "rows"
  /\ scan_row <= Len(scan_files[scan_file].rows)
  /\ scan_files[scan_file].rows[scan_row] # None
  /\ LET details == DetailsOf(scan_files[scan_file].filename)
         row_values == scan_files[scan_file].rows[scan_row]
     IN  /\ insert_or_update(details.source, details.signal, details.time_type, details.geo_type, details.time_value, row_values.geo_value, row_values.value, row_values.stderr, row_values.sample_size)
         /\ insert_or_update_calls' =
              Append(insert_or_update_calls,
                     <<details.source, details.signal, details.time_type,
                       details.geo_type, details.time_value,
                       row_values.geo_value, row_values.value,
                       row_values.stderr, row_values.sample_size>>)
  /\ scan_row' = scan_row + 1
  /\ UNCHANGED <<scan_files, scan_pc, scan_file, all_rows_valid,
                 load_csv_calls, archive_file_calls>>
  /\ UNCHANGED <<mainVars, covidcast_meta_cache, workerVars>>

\* as scan_archive_file, with the file archived as successful when a row of
\* it was upserted
scan_archive_file_any_row_valid ==
  /\ scan_pc = "rows"
  /\ scan_row > Len(scan_files[scan_file].rows)
  /\ LET details == DetailsOf(scan_files[scan_file].filename)
         some_row_valid ==
           \E i \in 1..Len(scan_files[scan_file].rows) :
             scan_files[scan_file].rows[i] # None
     IN  archive_file_calls' =
           Append(archive_file_calls,
                  [path_src |-> scan_files[scan_file].path_src,
                   path_dst |->
                     IF some_row_valid
                     THEN Append(archive_successful_dir, details.source)
                     ELSE Append(archive_failed_dir, details.source),
                   filename |-> scan_files[scan_file].filename,
                   success |-> some_row_valid])
  /\ scan_file' = scan_file + 1
  /\ scan_pc' = "files"
  /\ UNCHANGED <<scan_files, scan_row, all_rows_valid, load_csv_calls,
                 insert_or_update_calls>>
  /\ UNCHANGED <<storeVars, mainVars, covidcast_meta_cache, workerVars>>

\* the rows are over: the file is archived under its source, as successful
\* if all rows were valid and as failed if not
scan_archive_file ==
  /\ scan_pc = "rows"
  /\ scan_row > Len(scan_files[scan_file].rows)
  /\ LET details == DetailsOf(scan_files[scan_file].filename)
     IN  archive_file_calls' =
           Append(archive_file_calls,
                  [path_src |-> scan_files[scan_file].path_src,
                   path_dst |->
                     IF all_rows_valid
                     THEN Append(archive_successful_dir, details.source)
                     ELSE Append(archive_failed_dir, details.source),
                   filename |-> scan_files[scan_file].filename,
                   success |-> all_rows_valid])
  /\ scan_file' = scan_file + 1
  /\ scan_pc' = "files"
  /\ UNCHANGED <<scan_files, scan_row, all_rows_valid, load_csv_calls,
                 insert_or_update_calls>>
  /\ UNCHANGED <<storeVars, mainVars, covidcast_meta_cache, workerVars>>

InitScan ==
  /\ covidcast = {}
  /\ now = 1
  /\ pc = "idle"
  /\ test = FALSE
  /\ main_commit = FALSE
  /\ exception = FALSE
  /\ connection = "none"
  /\ persisted = {}
  /\ disconnect_calls = <<>>
  /\ commit_calls = 0
  /\ covidcast_meta_cache = {[timestamp |-> 0, epidata |-> ""]}
  /\ scan_files \in FileLists
  /\ scan_pc = "files"
  /\ scan_file = 1
  /\ scan_row = 1
  /\ all_rows_valid = TRUE
  /\ load_csv_calls = <<>>
  /\ insert_or_update_calls = <<>>
  /\ archive_file_calls = <<>>
  /\ ingest_open = TRUE
  /\ wpc = [w \in Workers |-> "idle"]
  /\ wtarget = [w \in Workers |-> None]
  /\ wwindow = [w \in Workers |-> <<>>]
  /\ restarts = 0

NextScan ==
  \/ scan_return
  \/ scan_archive_unknown
  \/ scan_load_csv
  \/ scan_row_invalid
  \/ scan_row_upsert
  \/ scan_archive_file

SpecScan == InitScan /\ [][NextScan]_vars

----------------------------------------------------------------------------
(* The direction workers: a worker takes a row from a result of            *)
(* get_rows_with_stale_direction, reads the window of the row with         *)
(* get_rows_to_compute_direction, classifies the values and writes the     *)
(* direction back with update_direction; then it goes on with another row. *)

\* how many times a worker is stopped and started from scratch
MaxRestarts == 1

\* the sum of a sequence of numbers
RECURSIVE Sum(_)
Sum(numbers) ==
  IF numbers = <<>> THEN 0 ELSE Head(numbers) + Sum(Tail(numbers))

\* the trend of a window: the sign of the slope of the least-squares line
\* through (time_offset, value); fewer than 2 points give "unknown"
Classify(window) ==
  LET n == Len(window)
      t == [i \in 1..n |-> window[i].time_offset]
      v == [i \in 1..n |-> window[i].value]
      tv == [i \in 1..n |-> window[i].time_offset * window[i].value]
      slope == n * Sum(tv) - Sum(t) * Sum(v)
  IN  IF n < 2 THEN "unknown"
      ELSE IF slope > 0 THEN "up"
      ELSE IF slope < 0 THEN "down"
      ELSE "steady"

\* a worker takes a row of a result of get_rows_with_stale_direction
worker_select(w) ==
  /\ wpc[w] \in {"idle", "written"}
  /\ \E result \in get_rows_with_stale_direction :
       \E x \in result :
         wtarget' = [wtarget EXCEPT ![w] = KeyOf(x)]
  /\ wpc' = [wpc EXCEPT ![w] = "selected"]
  /\ wwindow' = [wwindow EXCEPT ![w] = <<>>]
  /\ UNCHANGED <<ingest_open, restarts>>
  /\ UNCHANGED <<storeVars, mainVars, covidcast_meta_cache, scanVars>>

\* it reads the window of the row
worker_read(w) ==
  /\ wpc[w] = "selected"
  /\ wwindow' =
       [wwindow EXCEPT
          ![w] = get_rows_to_compute_direction(wtarget[w].source, wtarget[w].signal, wtarget[w].geo_type, wtarget[w].time_value, wtarget[w].geo_value)]
  /\ wpc' = [wpc EXCEPT ![w] = "read"]
  /\ UNCHANGED <<ingest_open, wtarget, restarts>>
  /\ UNCHANGED <<storeVars, mainVars, covidcast_meta_cache, scanVars>>

\* it writes back the direction of the window it read
worker_write(w) ==
  /\ wpc[w] = "read"
  /\ update_direction(wtarget[w].source, wtarget[w].signal, wtarget[w].time_type, wtarget[w].geo_type, wtarget[w].time_value, wtarget[w].geo_value, Classify(wwindow[w]))
  /\ wpc' = [wpc EXCEPT ![w] = "written"]
  /\ UNCHANGED <<ingest_open, wtarget, wwindow, restarts>>
  /\ UNCHANGED <<mainVars, covidcast_meta_cache, scanVars>>

\* it is stopped wherever it is, and started from scratch
worker_restart(w) ==
  /\ restarts < MaxRestarts
  /\ wpc[w] # "idle"
  /\ restarts' = restarts + 1
  /\ wpc' = [wpc EXCEPT ![w] = "idle"]
  /\ wtarget' = [wtarget EXCEPT ![w] = None]
  /\ wwindow' = [wwindow EXCEPT ![w] = <<>>]
  /\ UNCHANGED ingest_open
  /\ UNCHANGED <<storeVars, mainVars, covidcast_meta_cache, scanVars>>

\* a row is uploaded while the ingest goes on
IngestUpsert ==
  /\ ingest_open
  /\ \E u \in Uploads :
       /\ u.key \in RecentDayKeys
       /\ insert_or_update(u.key.source, u.key.signal, u.key.time_type, u.key.geo_type, u.key.time_value, u.key.geo_value, u.row.value, u.row.stderr, u.row.sample_size)
  /\ UNCHANGED <<mainVars, covidcast_meta_cache, scanVars, workerVars>>

\* the last row was uploaded
CloseIngest ==
  /\ ingest_open
  /\ ingest_open' = FALSE
  /\ UNCHANGED <<wpc, wtarget, wwindow, restarts>>
  /\ UNCHANGED <<storeVars, mainVars, covidcast_meta_cache, scanVars>>

(* Two workers beside the ingest.                                          *)

NextWorkers ==
  \/ IngestUpsert
  \/ CloseIngest
  \/ \E w \in Workers : worker_select(w)
  \/ \E w \in Workers : worker_read(w)
  \/ \E w \in Workers : worker_write(w)
  \/ Tick

SpecWorkers == Init /\ [][NextWorkers]_vars

(* Two workers that start when the ingest is over.                         *)

NextRecompute ==
  \/ IngestUpsert
  \/ CloseIngest
  \/ \E w \in Workers : ~ ingest_open /\ worker_select(w)
  \/ \E w \in Workers : ~ ingest_open /\ worker_read(w)
  \/ \E w \in Workers : ~ ingest_open /\ worker_write(w)
  \/ \E w \in Workers : ~ ingest_open /\ worker_restart(w)
  \/ Tick

SpecRecompute == Init /\ [][NextRecompute]_vars

(* One worker, the recomputation loop, started when the ingest is over:    *)
(* the loop goes on as long as it has something to do.                     *)

LoopStep ==
  /\ ~ ingest_open
  /\ (worker_select(1) \/ worker_read(1) \/ worker_write(1))

NextLoop ==
  \/ IngestUpsert
  \/ CloseIngest
  \/ ~ ingest_open /\ worker_select(1)
  \/ ~ ingest_open /\ worker_read(1)
  \/ ~ ingest_open /\ worker_write(1)
  \/ ~ ingest_open /\ worker_restart(1)
  \/ Tick

SpecLoop == Init /\ [][NextLoop]_vars /\ WF_vars(LoopStep)

----------------------------------------------------------------------------
(* What the claims are stated with.                                        *)

Has(table, k) == \E r \in table : KeyOf(r) = k
RowAt(table, k) == CHOOSE r \in table : KeyOf(r) = k
Measurement(r) ==
  [value |-> r.value, stderr |-> r.stderr, sample_size |-> r.sample_size]

\* one call of insert_or_update with the columns of an uploaded row
Call_insert_or_update(u) ==
  insert_or_update(u.key.source, u.key.signal, u.key.time_type,
                   u.key.geo_type, u.key.time_value, u.key.geo_value,
                   u.row.value, u.row.stderr, u.row.sample_size)

Call_update_direction(k, d) ==
  update_direction(k.source, k.signal, k.time_type, k.geo_type,
                   k.time_value, k.geo_value, d)

Call_update_timeseries_timestamp2(k) ==
  update_timeseries_timestamp2(k.source, k.signal, k.time_type, k.geo_type,
                               k.geo_value)

\* C1: the store holds at most one row per key; an upsert of an absent key
\* adds exactly one row, an upsert of a present key is a step like any
\* other and adds none; the row of a key holds the value, stderr and
\* sample_size of the most recent upsert of that key (an upsert writes them,
\* and no step that is not an upsert of the key changes them).
C1_OneRowPerKeyLatestValues ==
  [][/\ \A r1, r2 \in covidcast' : KeyOf(r1) = KeyOf(r2) => r1 = r2
     /\ \A u \in Uploads :
          Call_insert_or_update(u) =>
            /\ Cardinality(covidcast') =
                 Cardinality(covidcast)
                   + (IF Has(covidcast, u.key) THEN 0 ELSE 1)
            /\ Cardinality({r \in covidcast' : KeyOf(r) = u.key}) = 1
            /\ Measurement(RowAt(covidcast', u.key)) = u.row
     /\ \A r \in covidcast :
          (~ \E u \in Uploads :
               u.key = KeyOf(r) /\ Call_insert_or_update(u))
          => /\ Has(covidcast', KeyOf(r))
             /\ Measurement(RowAt(covidcast', KeyOf(r))) = Measurement(r)
    ]_vars

\* a row that was upserted again after a direction write (timestamp1 is
\* later than a nonzero timestamp2) and holds the second measurement
C1_Witness ==
  \E r \in covidcast :
    /\ r.timestamp2 > 0
    /\ r.timestamp1 > r.timestamp2
    /\ r.value = 2
    /\ Cardinality({q \in covidcast : KeyOf(q) = KeyOf(r)}) = 1

\* C2: a second insert_or_update of a key with a different
\* value/stderr/sample_size leaves timestamp1 strictly greater than the
\* first write left it.
C2_Timestamp1StrictlyIncreases ==
  [][\A u \in Uploads :
       (/\ Call_insert_or_update(u)
        /\ Has(covidcast, u.key)
        /\ Measurement(RowAt(covidcast, u.key)) # u.row)
       => RowAt(covidcast', u.key).timestamp1
            > RowAt(covidcast, u.key).timestamp1
    ]_vars

\* C3: insert_or_update of a present key leaves the row's direction and
\* timestamp2 as they were; of an absent key, creates the row with
\* timestamp2 = 0 and direction NULL; either way every other row is left
\* as it was.
C3_UpsertFrame ==
  [][\A u \in Uploads :
       Call_insert_or_update(u) =>
         /\ Has(covidcast, u.key) =>
              /\ RowAt(covidcast', u.key).direction
                   = RowAt(covidcast, u.key).direction
              /\ RowAt(covidcast', u.key).timestamp2
                   = RowAt(covidcast, u.key).timestamp2
         /\ ~ Has(covidcast, u.key) =>
              /\ RowAt(covidcast', u.key).timestamp2 = 0
              /\ RowAt(covidcast', u.key).direction = NULL
         /\ {r \in covidcast : KeyOf(r) # u.key}
              = {r \in covidcast' : KeyOf(r) # u.key}
    ]_vars

\* a row upserted after its direction was written (it kept the direction
\* and the nonzero timestamp2), beside a second row with a direction and a
\* freshly inserted third one
C3_Witness ==
  \E r, q, n \in covidcast :
    /\ r.direction = "up" /\ r.timestamp2 > 0 /\ r.timestamp1 > r.timestamp2
    /\ q # r /\ q.direction = "up"
    /\ n # r /\ n.timestamp2 = 0 /\ n.direction = NULL /\ n.timestamp1 = now

\* the calendar, for the days of the model: the day of the year 2020
CalendarDay(t) ==
  CASE t = 20200424 -> 115
    [] t = 20200430 -> 121
    [] t = 20200501 -> 122

\* the rows of the series of c dated from 6 days before c to c
TrailingWindow(c) ==
  {d \in covidcast :
     /\ SeriesOf(d) = SeriesOf(c)
     /\ CalendarDay(c.time_value) - CalendarDay(d.time_value) \in 0..6}

\* the staleness condition: some row of the trailing window was written
\* after the direction of c was last confirmed
IsStale(c) ==
  /\ c.time_type = "day"
  /\ \E d \in TrailingWindow(c) : d.timestamp1 > c.timestamp2

\* a row of the same series as c, other than c, at most 6 days from it
HasNeighbor(c) ==
  \E d \in covidcast :
    /\ d # c
    /\ SeriesOf(d) = SeriesOf(c)
    /\ CalendarDay(c.time_value) - CalendarDay(d.time_value) \in -6..6

ReturnedKeys(result) == {KeyOf(x) : x \in result}

\* C4, as claimed: every day row with timestamp1 > timestamp2 and a
\* same-series neighbor within 6 days is in the result of
\* get_rows_with_stale_direction, whatever the call returns.
C4_EveryStaleRowReturned ==
  \A result \in get_rows_with_stale_direction :
    \A c \in covidcast :
      (c.time_type = "day" /\ c.timestamp1 > c.timestamp2 /\ HasNeighbor(c))
      => KeyOf(c) \in ReturnedKeys(result)

\* C4, amended: such a row is in the result whenever no more than LIMIT
\* rows are stale; when more are, the result is LIMIT of the stale rows.
C4_StaleRowReturnedWithinLimit ==
  \A result \in get_rows_with_stale_direction :
    LET stale == {c \in covidcast : IsStale(c)}
    IN  /\ Cardinality(stale) <= LIMIT =>
             \A c \in covidcast :
               (/\ c.time_type = "day"
                /\ c.timestamp1 > c.timestamp2
                /\ HasNeighbor(c))
               => KeyOf(c) \in ReturnedKeys(result)
        /\ Cardinality(stale) > LIMIT =>
             /\ Cardinality(result) = LIMIT
             /\ ReturnedKeys(result) \subseteq {KeyOf(c) : c \in stale}

\* three day rows, exactly LIMIT of them stale; one of the stale ones was
\* written after its direction and its neighbors were not written since
C4_Witness ==
  /\ Cardinality({c \in covidcast : c.time_type = "day"}) = 3
  /\ Cardinality({c \in covidcast : IsStale(c)}) = LIMIT
  /\ \E c \in covidcast :
       /\ c.time_type = "day" /\ c.timestamp1 > c.timestamp2 /\ HasNeighbor(c)
       /\ c.timestamp2 > 0
       /\ \A d \in covidcast : d # c => d.timestamp1 <= c.timestamp2

\* C5: get_rows_with_stale_direction returns a row c only if some row d of
\* its series dated from 6 days before c to c has d.timestamp1 >
\* c.timestamp2; a row whose timestamp2 is >= the timestamp1 of all those
\* rows is never returned, whatever is written after c or more than 6 days
\* before it.
C5_ReturnedOnlyIfWindowNewer ==
  \A result \in get_rows_with_stale_direction :
    /\ \A x \in result :
         \E c \in covidcast :
           /\ KeyOf(c) = KeyOf(x)
           /\ c.timestamp2 = x.timestamp2
           /\ c.time_type = "day"
           /\ \E d \in covidcast :
                /\ SeriesOf(d) = SeriesOf(c)
                /\ CalendarDay(c.time_value) - CalendarDay(d.time_value) >= 0
                /\ CalendarDay(c.time_value) - CalendarDay(d.time_value) <= 6
                /\ d.timestamp1 > c.timestamp2
    /\ \A c \in covidcast :
         (/\ c.time_type = "day"
          /\ \A d \in TrailingWindow(c) : c.timestamp2 >= d.timestamp1)
         => KeyOf(c) \notin ReturnedKeys(result)

\* the row of 20200501 is fresh and not returned although the row of
\* 20200424, 7 days before it, was written later; the row of 20200430 is
\* returned, for the row of 20200424 in its window, although it was not
\* written itself since its direction was confirmed
C5_Witness ==
  \E c, e, f \in covidcast :
    /\ c.time_type = "day" /\ c.time_value = 20200501
    /\ e.time_type = "day" /\ e.time_value = 20200424
    /\ f.time_type = "day" /\ f.time_value = 20200430
    /\ e.timestamp1 > c.timestamp2
    /\ f.timestamp1 <= f.timestamp2
    /\ \A result \in get_rows_with_stale_direction :
         /\ KeyOf(c) \notin ReturnedKeys(result)
         /\ KeyOf(f) \in ReturnedKeys(result)

\* C6: every insert_or_update of a day row invalidates the freshness of its
\* direction, whatever its timestamp2 was: after the upsert the row is among
\* the stale rows of get_rows_with_stale_direction and its series among the
\* series of get_keys_with_potentially_stale_direction, and the row stays
\* stale until update_direction or update_timeseries_timestamp2 covers it.
C6_UpsertInvalidatesDirection ==
  [][/\ \A u \in Uploads :
          (Call_insert_or_update(u) /\ u.key.time_type = "day")
          => /\ RowAt(covidcast', u.key) \in stale_rows'
             /\ \E s \in get_keys_with_potentially_stale_direction' :
                  /\ s.source = u.key.source
                  /\ s.signal = u.key.signal
                  /\ s.geo_type = u.key.geo_type
                  /\ s.geo_value = u.key.geo_value
     /\ \A c \in stale_rows :
          (~ \/ \E d \in Directions : Call_update_direction(KeyOf(c), d)
             \/ Call_update_timeseries_timestamp2(KeyOf(c)))
          => \E c2 \in stale_rows' : KeyOf(c2) = KeyOf(c)
    ]_vars

\* C7: update_timeseries_timestamp2 sets timestamp2 = now in every row of
\* the named series, fresh or not, and changes nothing else: the rows of
\* other series, and value, stderr, sample_size, timestamp1 and direction
\* of the rows of the series, are as they were, and no row comes or goes.
C7_ConfirmSeriesFrame ==
  [][\A k \in Keys :
       Call_update_timeseries_timestamp2(k) =>
         /\ {KeyOf(r) : r \in covidcast'} = {KeyOf(r) : r \in covidcast}
         /\ Cardinality(covidcast') = Cardinality(covidcast)
         /\ \A r \in covidcast :
              LET r2 == RowAt(covidcast', KeyOf(r))
              IN  IF SeriesOf(r) = SeriesOf(k)
                  THEN /\ r2.timestamp2 = now
                       /\ r2.value = r.value
                       /\ r2.stderr = r.stderr
                       /\ r2.sample_size = r.sample_size
                       /\ r2.timestamp1 = r.timestamp1
                       /\ r2.direction = r.direction
                  ELSE r2 = r
    ]_vars

\* two day rows confirmed in the second without a direction ever written
\* (only update_timeseries_timestamp2 does that), one of them written
\* before that second and one in it, beside a weekly row never confirmed
C7_Witness ==
  \E r, q, w \in covidcast :
    /\ r # q /\ SeriesOf(r) = SeriesOf(q)
    /\ r.timestamp2 = now /\ q.timestamp2 = now
    /\ r.direction = NULL /\ q.direction = NULL
    /\ r.timestamp1 < now /\ q.timestamp1 = now
    /\ w.time_type = "week" /\ w.timestamp2 = 0

\* C8: update_direction sets direction and timestamp2 = now in the one row
\* whose six key columns equal the target, leaves that row's value, stderr,
\* sample_size and timestamp1 as they were, and leaves every other row,
\* those of the same series too, as it was; with no such row the store is
\* unchanged.
C8_WriteBackFrame ==
  [][\A k \in Keys, d \in Directions :
       Call_update_direction(k, d) =>
         /\ {KeyOf(r) : r \in covidcast'} = {KeyOf(r) : r \in covidcast}
         /\ Cardinality(covidcast') = Cardinality(covidcast)
         /\ \A r \in covidcast :
              LET r2 == RowAt(covidcast', KeyOf(r))
              IN  IF KeyOf(r) = k
                  THEN /\ r2.direction = d
                       /\ r2.timestamp2 = now
                       /\ r2.value = r.value
                       /\ r2.stderr = r.stderr
                       /\ r2.sample_size = r.sample_size
                       /\ r2.timestamp1 = r.timestamp1
                  ELSE r2 = r
         /\ ~ Has(covidcast, k) => covidcast' = covidcast
    ]_vars

\* a row whose direction was written in this second, beside a row of the
\* same series and a weekly row that have no direction and timestamp2 = 0
C8_Witness ==
  \E r, q, w \in covidcast :
    /\ r.direction = "up" /\ r.timestamp2 = now /\ r.timestamp1 < now
    /\ q # r /\ SeriesOf(q) = SeriesOf(r)
    /\ q.direction = NULL /\ q.timestamp2 = 0
    /\ w.time_type = "week" /\ w.direction = NULL /\ w.timestamp2 = 0

\* C9: in any interleaving of insert_or_update, update_direction and
\* update_timeseries_timestamp2 calls, under a clock that never goes back,
\* no row's timestamp1 and no row's timestamp2 decreases in a step.
C9_TimestampsNeverDecrease ==
  [][\A r \in covidcast :
       /\ Has(covidcast', KeyOf(r))
       /\ \A r2 \in covidcast' :
            KeyOf(r2) = KeyOf(r) =>
              /\ r2.timestamp1 >= r.timestamp1
              /\ r2.timestamp2 >= r.timestamp2
    ]_vars

\* rows written by all three calls: both confirmed by
\* update_timeseries_timestamp2 in the first second, then one upserted again
\* and the other given a direction in the second
C9_Witness ==
  \E r, q \in covidcast :
    /\ r.direction = NULL /\ r.timestamp2 = 1 /\ r.timestamp1 = 2
    /\ q.direction = "up" /\ q.timestamp2 = 2 /\ q.timestamp1 = 1

\* C10: main commits if and only if the run is not a test run and the
\* ingest step returned: when the ingest step raises, disconnect is still
\* called, with commit = false, and the exception reaches the caller; in a
\* test run disconnect is called with commit = false whatever happened; and
\* disconnect calls commit on the connection only when its argument is true.
C10_CommitIffCleanNonTestRun ==
  /\ pc \in {"returned", "raised"} =>
       /\ Len(disconnect_calls) = 1
       /\ disconnect_calls[1] = (~ test /\ ~ exception)
       /\ commit_calls = (IF ~ test /\ ~ exception THEN 1 ELSE 0)
       /\ exception <=> pc = "raised"
       /\ persisted = (IF ~ test /\ ~ exception THEN covidcast ELSE {})
       /\ connection = "closed"
  /\ pc \notin {"returned", "raised"} =>
       /\ disconnect_calls = <<>>
       /\ commit_calls = 0
       /\ persisted = {}
  /\ commit_calls
       = Cardinality({i \in 1..Len(disconnect_calls) : disconnect_calls[i]})

\* a run that is not a test run, whose ingest step upserted rows and then
\* raised: disconnect was called with false, nothing was committed and the
\* exception left main
C10_Witness ==
  /\ pc = "raised"
  /\ ~ test
  /\ exception
  /\ covidcast # {}
  /\ disconnect_calls = <<FALSE>>
  /\ commit_calls = 0
  /\ persisted = {}

\* the series a result of get_keys_with_potentially_stale_direction names
ReturnedSeries(result) ==
  {[source |-> x.source, signal |-> x.signal, time_type |-> "day",
    geo_type |-> x.geo_type, geo_value |-> x.geo_value] : x \in result}

\* the daily series that have rows
DaySeries == {SeriesOf(r) : r \in {r \in covidcast : r.time_type = "day"}}

\* C15, as claimed: get_keys_with_potentially_stale_direction returns a
\* daily series if and only if some row of the series has timestamp1 >
\* timestamp2.
C15_SeriesReturnedIffSomeRowNewer ==
  \A s \in DaySeries :
    s \in ReturnedSeries(get_keys_with_potentially_stale_direction)
    <=> \E r \in covidcast :
          SeriesOf(r) = s /\ r.timestamp1 > r.timestamp2

\* C15, amended: a daily series is returned if and only if the timestamp1
\* of some row of the series is greater than the timestamp2 of some row of
\* the series, the same row or another; so every series with a row whose
\* timestamp1 > timestamp2 is returned, all such series are, and only
\* series that have rows are.
C15_SeriesReturnedIffMaxNewerThanMin ==
  /\ \A s \in DaySeries :
       s \in ReturnedSeries(get_keys_with_potentially_stale_direction)
       <=> \E r, q \in covidcast :
             /\ SeriesOf(r) = s /\ SeriesOf(q) = s
             /\ r.timestamp1 > q.timestamp2
  /\ \A r \in covidcast :
       (r.time_type = "day" /\ r.timestamp1 > r.timestamp2)
       => SeriesOf(r) \in
            ReturnedSeries(get_keys_with_potentially_stale_direction)
  /\ ReturnedSeries(get_keys_with_potentially_stale_direction)
       \subseteq DaySeries
  /\ Cardinality(get_keys_with_potentially_stale_direction)
       = Cardinality(ReturnedSeries(get_keys_with_potentially_stale_direction))

\* a series is returned although none of its rows has timestamp1 >
\* timestamp2: one row was written and confirmed in the first second,
\* another in the second one
C15_Witness ==
  /\ get_keys_with_potentially_stale_direction # {}
  /\ \A r \in covidcast : r.timestamp1 <= r.timestamp2
  /\ \E r, q \in covidcast :
       /\ r.timestamp1 = 1 /\ r.timestamp2 = 1
       /\ q.timestamp1 = 2 /\ q.timestamp2 = 2

\* the rows of time_type day with the columns a result row x names
DayRowsOf(x) ==
  {r \in covidcast :
     /\ r.time_type = "day"
     /\ r.source = x.source /\ r.signal = x.signal
     /\ r.geo_type = x.geo_type /\ r.geo_value = x.geo_value}

\* C16: neither staleness query reports a row or a series that is not of
\* time_type day, whatever its timestamps: every row of a result of
\* get_rows_with_stale_direction is a stored day row, every series of
\* get_keys_with_potentially_stale_direction has day rows and is described
\* (timestamps, days, length) by its day rows alone, and the rows
\* get_rows_to_compute_direction selects are day rows of the trailing
\* window of the target, for the weekly row's arguments none.
C16_OnlyDayRowsReported ==
  /\ \A result \in get_rows_with_stale_direction :
       \A x \in result :
         /\ x.time_type = "day"
         /\ \E r \in covidcast : KeyOf(r) = KeyOf(x) /\ r.time_type = "day"
  /\ \A r \in stale_rows : r.time_type = "day"
  /\ \A x \in get_keys_with_potentially_stale_direction :
       /\ DayRowsOf(x) # {}
       /\ x.series_length = Cardinality(DayRowsOf(x))
       /\ x.max_timestamp1 \in {r.timestamp1 : r \in DayRowsOf(x)}
       /\ x.min_timestamp2 \in {r.timestamp2 : r \in DayRowsOf(x)}
       /\ x.min_day \in {r.time_value : r \in DayRowsOf(x)}
       /\ x.max_day \in {r.time_value : r \in DayRowsOf(x)}
  /\ \A k \in Keys :
       LET selected == window_rows(k.source, k.signal, k.geo_type, k.time_value, k.geo_value)
           result == get_rows_to_compute_direction(k.source, k.signal, k.geo_type, k.time_value, k.geo_value)
       IN  /\ \A r \in selected : r.time_type = "day"
           /\ Len(result) = Cardinality(selected)
           /\ k.time_type = "day" =>
                selected = {r \in covidcast :
                              /\ r.time_type = "day"
                              /\ SeriesOf(r) = SeriesOf(k)
                              /\ CalendarDay(k.time_value)
                                   - CalendarDay(r.time_value) \in 0..6}
           /\ k.time_type # "day" => result = <<>>

\* a weekly row with timestamp1 > timestamp2 = 0 beside two day rows of the
\* same source, signal and location, one of them stale and reported, the
\* other one fresh
C16_Witness ==
  \E w, c, f \in covidcast :
    /\ w.time_type = "week" /\ w.timestamp1 > w.timestamp2 /\ w.timestamp2 = 0
    /\ c.time_type = "day" /\ f.time_type = "day" /\ c # f
    /\ f.timestamp2 >= c.timestamp1 /\ f.timestamp2 >= f.timestamp1
    /\ \A result \in get_rows_with_stale_direction :
         ReturnedKeys(result) = {KeyOf(c)}
    /\ Cardinality(get_keys_with_potentially_stale_direction) = 1

\* C17: for every row x of a result of get_rows_with_stale_direction, the
\* support of x is the number of rows get_rows_to_compute_direction returns
\* for the columns of x in the same state: they are the day rows of the
\* series of x dated from 6 days before x to x, each with its offset and
\* value, x itself last with offset 0; the support is between 1 and 7 and
\* the offsets ascend.
C17_SupportIsWindowLength ==
  \A result \in get_rows_with_stale_direction :
    \A x \in result :
      LET window == get_rows_to_compute_direction(x.source, x.signal, x.geo_type, x.time_value, x.geo_value)
          c == RowAt(covidcast, KeyOf(x))
      IN  /\ x.support = Len(window)
          /\ x.support >= 1 /\ x.support <= 7
          /\ {window[i] : i \in 1..Len(window)} =
               {[time_offset |-> CalendarDay(d.time_value)
                                  - CalendarDay(c.time_value),
                 value |-> d.value] : d \in TrailingWindow(c)}
          /\ \A i \in 1..Len(window) : window[i].time_offset \in -6..0
          /\ \A i, j \in 1..Len(window) :
               i < j => window[i].time_offset < window[j].time_offset
          /\ window[Len(window)] = [time_offset |-> 0, value |-> c.value]

\* three day rows, all stale: the row of 20200501 is reported with support
\* 2 (the row of 20200424 is 7 days before it), the row of 20200430 with
\* support 2 and the row of 20200424 with support 1, and the window of
\* 20200430 holds two different values
C17_Witness ==
  /\ Cardinality(covidcast) = 3
  /\ \E result \in get_rows_with_stale_direction :
       \E x, y \in result :
         /\ x.time_value = 20200501 /\ x.support = 2
         /\ y.time_value = 20200424 /\ y.support = 1
  /\ \E result \in get_rows_with_stale_direction :
       \E x \in result : x.time_value = 20200430 /\ x.support = 2
  /\ get_rows_to_compute_direction("src_a", "sig_a", "hrr", 20200430, "a1")
       = <<[time_offset |-> -6, value |-> 1], [time_offset |-> 0, value |-> 2]>>

\* C20: in every reachable state, the series of every row that satisfies
\* the staleness condition of get_rows_with_stale_direction is among the
\* series of get_keys_with_potentially_stale_direction; and right after
\* update_timeseries_timestamp2 on a daily series neither query reports the
\* series or a row of it (no row of it is among the rows the row-level
\* statement keeps, which its results are taken from).
C20_SeriesQueryCoversRowQuery ==
  /\ [](\A c \in stale_rows :
         SeriesOf(c) \in
           ReturnedSeries(get_keys_with_potentially_stale_direction))
  /\ [][\A s \in {SeriesOf(k) : k \in DayKeys} :
         Call_update_timeseries_timestamp2(s) =>
           /\ s \notin
                ReturnedSeries(get_keys_with_potentially_stale_direction')
           /\ \A c \in stale_rows' : SeriesOf(c) # s
      ]_vars

\* a series of three rows just confirmed by update_timeseries_timestamp2:
\* neither query reports anything, although one row was written in this
\* very second and another one, whose direction is older, before it
C20_Witness ==
  /\ Cardinality(covidcast) = 3
  /\ \A r \in covidcast : r.timestamp2 = now
  /\ \E r, q \in covidcast :
       /\ r.timestamp1 = now /\ r.direction = NULL
       /\ q.timestamp1 < now /\ q.direction = "up"
  /\ get_keys_with_potentially_stale_direction = {}
  /\ get_rows_with_stale_direction = {{}}

PresentKeys(table) == {KeyOf(r) : r \in table}

\* C18: no step of insert_or_update, update_direction,
\* update_timeseries_timestamp2 or update_covidcast_meta_cache deletes a
\* row: the keys present before a step are present after it,
\* count_all_rows does not decrease, it changes only by an insert_or_update
\* of an absent key, and then by exactly one; the other three calls leave
\* the keys as they are, and update_covidcast_meta_cache the whole table.
C18_NoRowDeleted ==
  [][/\ PresentKeys(covidcast) \subseteq PresentKeys(covidcast')
     /\ count_all_rows' >= count_all_rows
     /\ count_all_rows' # count_all_rows =>
          /\ count_all_rows' = count_all_rows + 1
          /\ \E u \in Uploads :
               /\ ~ Has(covidcast, u.key)
               /\ Call_insert_or_update(u)
               /\ PresentKeys(covidcast') = PresentKeys(covidcast) \cup {u.key}
     /\ \A u \in Uploads :
          Call_insert_or_update(u) =>
            count_all_rows' =
              count_all_rows + (IF Has(covidcast, u.key) THEN 0 ELSE 1)
     /\ \A k \in RecentDayKeys :
          ((\E d \in Directions : Call_update_direction(k, d))
             \/ Call_update_timeseries_timestamp2(k))
          => PresentKeys(covidcast') = PresentKeys(covidcast)
     /\ \A epidata_json \in Epidata :
          update_covidcast_meta_cache(epidata_json) =>
            covidcast' = covidcast
    ]_vars

\* two rows, one of them upserted twice (it holds the second measurement)
\* and given a direction, the other confirmed with its series, and the
\* metadata cache refreshed after the rows were written
C18_Witness ==
  /\ count_all_rows = 2
  /\ \E r, q \in covidcast :
       /\ r.value = 2 /\ r.direction = "up"
       /\ q.direction = NULL /\ q.timestamp2 > 0
       /\ \E m \in covidcast_meta_cache :
            /\ m.epidata = "[{}]"
            /\ m.timestamp > r.timestamp1 /\ m.timestamp > q.timestamp1

\* the archive_file call a file is due: (path_src, path_dst, filename,
\* success)
ExpectedArchive(f) ==
  LET classified == f.filename \in {"a.csv", "b.csv"}
      every_row_valid == \A i \in 1..Len(f.rows) : f.rows[i] # None
      source == IF f.filename = "a.csv" THEN "src_a" ELSE "src_b"
  IN  [path_src |-> "path",
       path_dst |->
         IF classified /\ every_row_valid
         THEN <<"data_dir", "archive", "successful", source>>
         ELSE IF classified
              THEN <<"data_dir", "archive", "failed", source>>
              ELSE <<"data_dir", "archive", "failed", "unknown">>,
       filename |-> f.filename,
       success |-> classified /\ every_row_valid]

\* C11: scan_upload_archive archives every file once, in the order of the
\* list: the calls of archive_file made so far are those due to the files
\* gone through, one each and in order, and at the return every file has
\* its call; a file is archived with success under
\* data_dir/archive/successful/<source> iff its name was classified and all
\* its rows are valid, under data_dir/archive/failed/<source> if it was
\* classified and a row is not valid, under data_dir/archive/failed/unknown
\* if it was not classified.
C11_EachFileArchivedOnce ==
  /\ Len(archive_file_calls) = scan_file - 1
  /\ Len(archive_file_calls) <= Len(scan_files)
  /\ \A i \in 1..Len(archive_file_calls) :
       archive_file_calls[i] = ExpectedArchive(scan_files[i])
  /\ scan_pc = "returned" => Len(archive_file_calls) = Len(scan_files)

\* the scan returned from three files: b.csv with a valid row, a row that
\* is not valid and a valid row, then c.csv, then a.csv with three valid
\* rows
C11_Witness ==
  /\ scan_pc = "returned"
  /\ Len(scan_files) = 3
  /\ scan_files[1].filename = "b.csv"
  /\ Len(scan_files[1].rows) = 3
  /\ scan_files[1].rows[1] # None
  /\ scan_files[1].rows[2] = None
  /\ scan_files[1].rows[3] # None
  /\ scan_files[2].filename = "c.csv"
  /\ Len(scan_files[3].rows) = 3
  /\ \A i \in 1..3 : scan_files[3].rows[i] # None
  /\ archive_file_calls[1].success = FALSE
  /\ archive_file_calls[3].success = TRUE

\* the arguments insert_or_update is due for a valid row of a classified
\* file: the five details of the file's name, then the four of the row
UpsertArgs(f, row) ==
  IF f.filename = "a.csv"
  THEN <<"src_a", "sig_a", "day", "hrr", 20200419,
         row.geo_value, row.value, row.stderr, row.sample_size>>
  ELSE <<"src_b", "sig_b", "week", "msa", 202016,
         row.geo_value, row.value, row.stderr, row.sample_size>>

\* the calls due to the first n rows of a classified file
RECURSIVE RowUpserts(_, _)
RowUpserts(f, n) ==
  IF n = 0
  THEN <<>>
  ELSE RowUpserts(f, n - 1)
         \o (IF f.rows[n] = None THEN <<>> ELSE <<UpsertArgs(f, f.rows[n])>>)

\* the calls due to the first n files of a list
RECURSIVE FilesUpserts(_, _)
FilesUpserts(files, n) ==
  IF n = 0
  THEN <<>>
  ELSE FilesUpserts(files, n - 1)
         \o (IF files[n].filename = "c.csv"
             THEN <<>>
             ELSE RowUpserts(files[n], Len(files[n].rows)))

\* the classified files among the first n files of a list
RECURSIVE ClassifiedPaths(_, _)
ClassifiedPaths(files, n) ==
  IF n = 0
  THEN <<>>
  ELSE ClassifiedPaths(files, n - 1)
         \o (IF files[n].filename = "c.csv"
             THEN <<>>
             ELSE <<(<<"path", files[n].filename>>)>>)

CallKey(call) == <<call[1], call[2], call[3], call[4], call[5], call[6]>>

\* C12: the calls of insert_or_update made so far are those due, one per
\* valid row of the classified files gone through and of the rows gone
\* through of the file being loaded, in the order of the files and of the
\* rows, each with the details of its file and the four values of its row;
\* a row that is None adds no call and the rows after it are still
\* upserted; a file that is not classified adds none and is never loaded;
\* and what was upserted stays in the store whatever the file is archived
\* as: every key upserted has its one row, with the values of the last
\* call of that key.
C12_OneUpsertPerValidRow ==
  /\ insert_or_update_calls =
       FilesUpserts(scan_files, scan_file - 1)
         \o (IF scan_pc = "rows"
             THEN RowUpserts(scan_files[scan_file], scan_row - 1)
             ELSE <<>>)
  /\ load_csv_calls =
       ClassifiedPaths(scan_files,
                       IF scan_pc = "rows" THEN scan_file ELSE scan_file - 1)
  /\ \A i \in 1..Len(insert_or_update_calls) :
       LET same == {j \in 1..Len(insert_or_update_calls) :
                      CallKey(insert_or_update_calls[j])
                        = CallKey(insert_or_update_calls[i])}
           last == insert_or_update_calls[MaxOf(same)]
       IN  \E r \in covidcast :
             /\ <<r.source, r.signal, r.time_type, r.geo_type, r.time_value,
                  r.geo_value>> = CallKey(last)
             /\ <<r.value, r.stderr, r.sample_size>>
                  = <<last[7], last[8], last[9]>>
  /\ Cardinality(covidcast) =
       Cardinality({CallKey(insert_or_update_calls[i]) :
                      i \in 1..Len(insert_or_update_calls)})

\* the scan returned from c.csv, then a.csv with the first measurement, a
\* row that is not valid and the second measurement of the same location,
\* then b.csv with a row that is not valid between two valid ones: four
\* calls, the files of a.csv and b.csv archived as failed, and their rows
\* in the store
C12_Witness ==
  /\ scan_pc = "returned"
  /\ Len(scan_files) = 3
  /\ scan_files[1].filename = "c.csv"
  /\ scan_files[2].filename = "a.csv"
  /\ Len(scan_files[2].rows) = 3
  /\ scan_files[2].rows[1] # None /\ scan_files[2].rows[1].value = 1
  /\ scan_files[2].rows[2] = None
  /\ scan_files[2].rows[3] # None /\ scan_files[2].rows[3].value = 2
  /\ Len(scan_files[3].rows) = 3
  /\ scan_files[3].rows[1] # None
  /\ scan_files[3].rows[2] = None
  /\ scan_files[3].rows[3] # None
  /\ Len(insert_or_update_calls) = 4
  /\ Len(load_csv_calls) = 2
  /\ archive_file_calls[2].success = FALSE
  /\ archive_file_calls[3].success = FALSE
  /\ Cardinality(covidcast) = 2
  /\ \E r \in covidcast : r.source = "src_a" /\ r.value = 2

\* C13: when a worker writes back a row that the other worker has written
\* back from the same window (both took the row while it was stale, no row
\* was uploaded since), the row has the direction of that window, as after
\* the first write-back, and is not stale; the write changes nothing but
\* the timestamp2 of the row, which does not decrease.
C13_SecondWriteBackChangesOnlyTimestamp2 ==
  [][\A w, o \in Workers :
       (/\ w # o
        /\ wpc[w] = "read" /\ wpc'[w] = "written"
        /\ wpc[o] = "written"
        /\ wtarget[o] = wtarget[w]
        /\ wwindow[o] = wwindow[w])
       => LET r == RowAt(covidcast, wtarget[w])
              r2 == RowAt(covidcast', wtarget[w])
          IN  /\ r.direction = Classify(wwindow[w])
              /\ r2.direction = Classify(wwindow[w])
              /\ \A d \in covidcast' :
                   (/\ SeriesOf(d) = SeriesOf(r2)
                    /\ CalendarDay(r2.time_value) - CalendarDay(d.time_value)
                         \in 0..6)
                   => d.timestamp1 <= r2.timestamp2
              /\ r2 \notin stale_rows'
              /\ r2.timestamp2 >= r.timestamp2
              /\ covidcast' =
                   (covidcast \ {r}) \cup {[r EXCEPT !.timestamp2 = now]}
    ]_vars

\* both workers have written back the row of 20200501 from the same window
\* of two rows with a falling value, the second one a second later than
\* the rows were uploaded; the row of 20200430 has no direction yet
C13_Witness ==
  /\ ~ ingest_open
  /\ wpc = [w \in Workers |-> "written"]
  /\ wtarget[1] = wtarget[2]
  /\ wtarget[1].time_value = 20200501
  /\ wwindow[1] = wwindow[2]
  /\ wwindow[1] = <<[time_offset |-> -1, value |-> 2],
                    [time_offset |-> 0, value |-> 1]>>
  /\ \E r, q \in covidcast :
       /\ KeyOf(r) = wtarget[1]
       /\ r.direction = "down"
       /\ r.timestamp2 = now /\ r.timestamp2 > r.timestamp1
       /\ q.time_value = 20200430 /\ q.direction = NULL
       /\ r \notin stale_rows /\ q \in stale_rows

StaleKeys == {KeyOf(c) : c \in stale_rows}

\* C14: every write-back of the loop is of a row that is still stale (the
\* loop took it from get_rows_with_stale_direction and no one else writes
\* directions), and it takes that row, and no other, out of the stale rows
\* and adds none, with whatever direction the window gives, "unknown" too;
\* a restart leaves the store as it is; and once the ingest is over, the
\* loop, restarted or not, reaches a state with no stale row.
C14_LoopDrainsStaleRows ==
  /\ [][/\ (wpc[1] = "read" /\ wpc'[1] = "written")
            => (/\ wtarget[1] \in StaleKeys
                /\ StaleKeys' = StaleKeys \ {wtarget[1]}
                /\ RowAt(covidcast', wtarget[1]).direction
                     = Classify(wwindow[1]))
        /\ (restarts' # restarts) => (covidcast' = covidcast)
        /\ (~ ingest_open /\ covidcast' # covidcast)
            => (wpc[1] = "read" /\ wpc'[1] = "written")
      ]_vars
  /\ (~ ingest_open) ~> (stale_rows = {})

\* the ingest is over and no row is stale: the loop, restarted once, wrote
\* "unknown" to the row of 20200430, whose window is the row alone, and a
\* direction to the row of 20200501
C14_Witness ==
  /\ ~ ingest_open
  /\ restarts = 1
  /\ stale_rows = {}
  /\ get_rows_with_stale_direction = {{}}
  /\ wpc[1] = "written"
  /\ \E r, q \in covidcast :
       /\ r.time_value = 20200430 /\ r.direction = "unknown"
       /\ q.time_value = 20200501 /\ q.direction = "down"

\* C19: while rows are uploaded and workers read windows and write
\* directions back, every day row that has a direction and is not stale
\* (its timestamp2 is >= the timestamp1 of every row of its trailing
\* window) has the direction of the values its window holds now.
C19_FreshDirectionIsOfCurrentWindow ==
  \A c \in covidcast :
    (/\ c.time_type = "day"
     /\ c.direction # NULL
     /\ \A d \in TrailingWindow(c) : c.timestamp2 >= d.timestamp1)
    => c.direction =
         Classify(get_rows_to_compute_direction(c.source, c.signal, c.geo_type, c.time_value, c.geo_value))

====
